---- MODULE Spec2Model ----
(***************************************************************************)
(* Call ingestion pipeline of the Call Analytics Insights Platform:        *)
(* the ingestion endpoint (app/api/calls.py), the Celery worker            *)
(* (app/tasks.py), the pending-calls sweep (scripts/                       *)
(* process_pending_calls.py) and the report endpoints (app/api/reports.py) *)
(* over the three tables of app/models.py and the two Celery lanes of      *)
(* app/celery_app.py.                                                      *)
(*                                                                         *)
(* An optional column (nullable=True) holds <<>> for NULL and <<v>> for    *)
(* the value v.  A table is the sequence of its rows; the autoincrement    *)
(* primary key of a row is its position.                                   *)
(***************************************************************************)
EXTENDS Integers, Sequences, FiniteSets, Bags, TLC

VARIABLES
    callrecord,     \* table callrecord
    callinsight,    \* table callinsight
    media,          \* files under MEDIA_ROOT/<company_id>/, by handle
    calls_queue,    \* Celery lane 'calls': bag of call_record_id
    reports_queue,  \* Celery lane 'reports': bag of company_id
    req,            \* create_call requests in flight, per client
    wk,             \* process_call_record executions, per worker slot
    sw,             \* the process_pending_calls script; seen (the flags at
                    \*   the scan) and sent (the jobs sent) are history
    regen,          \* last response of POST /api/reports/
    resp,           \* last response of a GET endpoint
    lost,           \* history: record ids whose enqueue at ingestion failed
    swept,          \* history: record ids a sweep has enqueued a job for
    ran,            \* history: record ids some execution has finished for
    reran,          \* history: record ids an execution has finished for that
                    \*   started after another one had finished
    clashed,        \* history: record ids an execution was rolled back for by
                    \*   the unique index, having started before any finished
    raised,         \* history: <<job id, step>> of the executions that have
                    \*   re-raised an error (the except branch of
                    \*   process_call_record), step the statement that failed
    now,            \* datetime.utcnow(), in whole seconds
    snapshots,      \* files under MEDIA_ROOT/reports/<company_id>/, by name
    generated       \* history: per company, the generate_company_report
                    \*   executions that have returned their path

vars == <<callrecord, callinsight, media, calls_queue, reports_queue,
          req, wk, sw, regen, resp, lost, swept, ran, reran, clashed, raised,
          now, snapshots, generated>>

db == <<callrecord, callinsight>>
hist == <<lost, swept, ran, reran, clashed, raised>>
runs == <<ran, reran, clashed, raised>>
gen == <<now, snapshots, generated>>

----------------------------------------------------------------------------
(* Bounds of the model *)

MaxFiles == 2         \* create_call requests that reach the Media Store
MaxQueue == 2         \* jobs waiting on the 'calls' lane
MaxSweeps == 1        \* runs of the process_pending_calls script
MaxReportQueue == 1   \* jobs waiting on the 'reports' lane

----------------------------------------------------------------------------
(* Tenants, request inputs *)

\* Rows of table company, created out of band: company 1 keeps the column
\* default of can_regen_reports, company 2 has the flag unset.
Companies == {1, 2}
can_regen_reports(c) == c = 1

Clients == {"u1"}
Workers == {"w1", "w2"}

CallIds == {"k1", "k2"}
\* duration and start_time of CallCreate, both Optional; the pipeline never
\* reads them, the read endpoints are run over more (ReadMetas)
Metas == {[duration |-> <<5>>, start_time |-> <<1>>]}
SentimentEnum == {"Positive", "Negative", "Neutral"}
\* the keywords dictionary of every insight, as its items in order
Keywords == << <<"topics", <<"support", "billing", "upgrade">> >> >>

NoReq == [pc |-> "idle", id |-> 0, is_processed |-> FALSE, status |-> 0]
NoRun == [pc |-> "idle", id |-> 0, call_id |-> "", is_processed |-> FALSE,
          after |-> FALSE]
NoResp == [op |-> "none", company |-> 0, status |-> 0, body |-> <<>>]
NoSweep == [pc |-> "idle", pending |-> <<>>, i |-> 0, run |-> 0,
            seen |-> <<>>, sent |-> <<>>]

----------------------------------------------------------------------------
(* The tables *)

Range(s) == {s[i] : i \in DOMAIN s}

CallIdTaken_NoIndex(records, call_id) == FALSE

\* UNIQUE index on callrecord.call_id
CallIdTaken(records, call_id) ==
    \E i \in DOMAIN records : records[i].call_id = call_id

InsightTaken_NoIndex(insights, id) == FALSE

\* UNIQUE index on callinsight.call_id
InsightTaken(insights, id) ==
    \E j \in DOMAIN insights : insights[j].call_id = id

NewCallRecord_Processed(id, company, call_id, duration, start_time, file) ==
    [id |-> id, company_id |-> company, call_id |-> call_id,
     duration |-> duration, start_time |-> start_time,
     recording_file |-> file, is_processed |-> TRUE]

NewCallRecord(id, company, call_id, duration, start_time, file) ==
    [id |-> id, company_id |-> company, call_id |-> call_id,
     duration |-> duration, start_time |-> start_time,
     recording_file |-> file, is_processed |-> FALSE]

NewCallInsight(id, call_id, sentiment) ==
    [call_id |-> id, transcription |-> <<"Simulated transcription for", call_id>>,
     sentiment |-> <<sentiment>>, keywords |-> Keywords,
     summary |-> "Simulated summary of the call."]

MarkProcessed_Skip(records, id) == records

MarkProcessed_All(records, id) ==
    [i \in DOMAIN records |-> [records[i] EXCEPT !.is_processed = TRUE]]

\* The flush of session.commit() in process_call_record: the UPDATE of the
\* flag that goes with the INSERT of the insight
MarkProcessed(records, id) ==
    [records EXCEPT ![id].is_processed = TRUE]

RolledBack_Unflag(records, id) ==
    [records EXCEPT ![id].is_processed = FALSE]

RolledBack_KeepFlag(records, id) ==
    [records EXCEPT ![id].is_processed = TRUE]

\* session.rollback(): the pending INSERT and UPDATE are discarded
RolledBack(records, id) == records

Delay_SentAnyway(queue, id, ok) == queue (+) SetToBag({id})

Delay_Dropped(queue, id, ok) == queue

\* task.delay(id): the message joins the lane, or the broker is unreachable
\* and nothing is sent
Delay(queue, id, ok) == IF ok THEN queue (+) SetToBag({id}) ELSE queue

InsightsOf(insights, id) == {j \in DOMAIN insights : insights[j].call_id = id}

----------------------------------------------------------------------------
(* POST /api/calls/ : create_call *)

\* save_upload_file (a file under a fresh uuid4 name, which no other request
\* or task reads), then db.add(cr); await db.commit(): the insert, or the
\* unique index on call_id raising, which the outer handler turns into a 500
CreateCommit(u, company, call_id, duration, start_time) ==
    /\ req[u].pc = "idle"
    /\ Len(media) < MaxFiles
    /\ media' = Append(media, company)
    /\ IF CallIdTaken(callrecord, call_id)
       THEN /\ req' = [req EXCEPT ![u] = [NoReq EXCEPT !.status = 500]]
            /\ UNCHANGED callrecord
       ELSE /\ callrecord' = Append(callrecord,
                  NewCallRecord(Len(callrecord) + 1, company, call_id,
                                duration, start_time, Len(media) + 1))
            /\ req' = [req EXCEPT ![u] =
                         [NoReq EXCEPT !.pc = "committed",
                                       !.id = Len(callrecord) + 1]]
    /\ UNCHANGED <<gen, resp, callinsight, calls_queue, reports_queue, wk, sw, regen,
                   hist>>

\* await db.refresh(cr): the row is read back into the object
CreateRefresh(u) ==
    /\ req[u].pc = "committed"
    /\ req' = [req EXCEPT ![u].pc = "refreshed",
                 ![u].is_processed = callrecord[req[u].id].is_processed]
    /\ UNCHANGED <<gen, resp, db, media, calls_queue, reports_queue, wk, sw, regen, hist>>

\* celery_process_call.delay(cr.id) with its failure swallowed, and the 201
CreateEnqueue(u, ok) ==
    /\ req[u].pc = "refreshed"
    /\ ok => BagCardinality(calls_queue) < MaxQueue
    /\ calls_queue' = Delay(calls_queue, req[u].id, ok)
    /\ lost' = IF ok THEN lost ELSE lost \cup {req[u].id}
    /\ req' = [req EXCEPT ![u] =
                 [NoReq EXCEPT !.status = 201, !.id = req[u].id,
                               !.is_processed = req[u].is_processed]]
    /\ UNCHANGED <<gen, resp, db, media, reports_queue, wk, sw, regen, swept, runs>>

----------------------------------------------------------------------------
(* Celery task process_call_record, lane 'calls' *)

\* The end of an execution for job id, in the history; error: the step that
\* sent it through the except branch, which re-raises, or "none"
Finished(id, after, clash, error) ==
    /\ ran' = ran \cup {id}
    /\ reran' = IF after THEN reran \cup {id} ELSE reran
    /\ clashed' = IF clash /\ ~after THEN clashed \cup {id} ELSE clashed
    /\ raised' = IF error # "none" THEN raised \cup {<<id, error>>} ELSE raised

RecordFound_Always(records, id) == TRUE

\* cr = session.query(CallRecord).get(call_record_id); if not cr
RecordFound(records, id) == id \in DOMAIN records

\* The worker takes the job off the lane (acknowledged on receipt, no retry
\* policy is configured) and runs session.query(CallRecord).get(id); an
\* absent record ends the task with the error dictionary, returned and not
\* raised.  A record that is found is worked on whatever its flag says.
ProcessLoad(w, id) ==
    /\ wk[w].pc = "idle"
    /\ BagIn(id, calls_queue)
    /\ calls_queue' = calls_queue (-) SetToBag({id})
    /\ IF RecordFound(callrecord, id)
       THEN /\ wk' = [wk EXCEPT ![w] =
                        [pc |-> "loaded", id |-> id,
                         call_id |-> IF id \in DOMAIN callrecord
                                     THEN callrecord[id].call_id ELSE "",
                         is_processed |-> IF id \in DOMAIN callrecord
                                          THEN callrecord[id].is_processed
                                          ELSE FALSE,
                         after |-> (id \in ran)]]
            /\ UNCHANGED runs
       ELSE /\ UNCHANGED wk
            /\ Finished(id, id \in ran, FALSE, "none")
    /\ UNCHANGED <<gen, resp, db, media, reports_queue, req, sw, regen, lost, swept>>

\* sleep(...); the CallInsight object with its random sentiment (local to
\* the task, so drawn here); session.add(insight); cr.is_processed = True;
\* session.commit(): one transaction.  The unique index on
\* callinsight.call_id raising sends the task through the except branch:
\* rollback, re-raise.
ProcessCommit(w, s) ==
    /\ wk[w].pc = "loaded"
    /\ IF InsightTaken(callinsight, wk[w].id)
       THEN /\ callrecord' = RolledBack(callrecord, wk[w].id)
            /\ UNCHANGED callinsight
            /\ Finished(wk[w].id, wk[w].after, TRUE, "commit")
       ELSE /\ callinsight' = Append(callinsight,
                  NewCallInsight(wk[w].id, wk[w].call_id, s))
            /\ callrecord' = MarkProcessed(callrecord, wk[w].id)
            /\ Finished(wk[w].id, wk[w].after, FALSE, "none")
    /\ wk' = [wk EXCEPT ![w] = NoRun]
    /\ UNCHANGED <<gen, resp, media, calls_queue, reports_queue, req, sw, regen, lost,
                   swept>>

----------------------------------------------------------------------------
(* scripts/process_pending_calls.py : main *)

\* select(CallRecord).where(CallRecord.is_processed == False), and the p.id
\* of its rows
PendingFilter_All(r) == TRUE

PendingFilter(r) == r.is_processed = FALSE
PendingIds(records) ==
    LET pending == SelectSeq(records, PendingFilter)
    IN  [i \in 1..Len(pending) |-> pending[i].id]

\* the script is started (again) and runs its query
SweepScan ==
    /\ sw.pc # "loop"
    /\ sw.run < MaxSweeps
    /\ LET pending == PendingIds(callrecord) IN
       sw' = [pc |-> IF pending = <<>> THEN "done" ELSE "loop",
              pending |-> pending, i |-> 1, run |-> sw.run + 1,
              seen |-> [i \in DOMAIN callrecord |->
                          callrecord[i].is_processed],
              sent |-> <<>>]
    /\ UNCHANGED <<gen, resp, db, media, calls_queue, reports_queue, req, wk, regen, hist>>

\* one turn of the loop: celery_process_call.delay(p.id); a broker error is
\* not caught and ends the script
SweepEnqueue(ok) ==
    /\ sw.pc = "loop"
    /\ LET id == sw.pending[sw.i] IN
       /\ ok => BagCardinality(calls_queue) < MaxQueue
       /\ calls_queue' = Delay(calls_queue, id, ok)
       /\ IF ok
          THEN /\ swept' = swept \cup {id}
               /\ sw' = IF sw.i = Len(sw.pending)
                        THEN [sw EXCEPT !.pc = "done",
                                        !.sent = Append(sw.sent, id)]
                        ELSE [sw EXCEPT !.i = sw.i + 1,
                                        !.sent = Append(sw.sent, id)]
          ELSE /\ sw' = [sw EXCEPT !.pc = "crashed"]
               /\ UNCHANGED swept
    /\ UNCHANGED <<gen, resp, db, media, reports_queue, req, wk, regen, lost, runs>>

----------------------------------------------------------------------------
(* POST /api/reports/ : regen_report *)

RegenAllowed_Anyone(c) == TRUE

\* if not company.can_regen_reports: raise HTTPException(403)
RegenAllowed(c) == can_regen_reports(c)

\* 403 for a company without the flag; otherwise the job is sent to lane
\* 'reports', a broker error is logged, and the answer is 200 either way
RegenReport(c, ok) ==
    /\ IF ~RegenAllowed(c)
       THEN /\ regen' = [company |-> c, status |-> 403]
            /\ UNCHANGED reports_queue
       ELSE /\ regen' = [company |-> c, status |-> 200]
            /\ IF ok
               THEN /\ BagCardinality(reports_queue) < MaxReportQueue
                    /\ reports_queue' = Delay(reports_queue, c, TRUE)
               ELSE reports_queue' = Delay(reports_queue, c, FALSE)
    /\ UNCHANGED <<gen, resp, db, media, calls_queue, req, wk, sw, hist>>

----------------------------------------------------------------------------
(* GET /api/calls/ : list_calls *)

\* A date parameter of the query string: absent, an ISO date (its instant),
\* or a string datetime.fromisoformat rejects
NoDate == [kind |-> "none"]
IsoDate(d) == [kind |-> "iso", d |-> d]
BadDate == [kind |-> "bad"]

\* SQL comparisons: a NULL column satisfies none
ColGe(col, v) == col # <<>> /\ col[1] >= v
ColLe(col, v) == col # <<>> /\ col[1] <= v

\* CallRead.from_orm(r)
CallRead(r) ==
    [id |-> r.id, call_id |-> r.call_id, start_time |-> r.start_time,
     duration |-> r.duration, is_processed |-> r.is_processed,
     recording_file |-> r.recording_file]

ListWhere_AnyCompany(r, company, from_date, to_date, duration_gt, duration_lt) ==
    /\ from_date.kind = "iso" => ColGe(r.start_time, from_date.d)
    /\ to_date.kind = "iso" => ColLe(r.start_time, to_date.d)
    /\ duration_gt # <<>> => ColGe(r.duration, duration_gt[1])
    /\ duration_lt # <<>> => ColLe(r.duration, duration_lt[1])

ListWhere_Strict(r, company, from_date, to_date, duration_gt, duration_lt) ==
    /\ r.company_id = company
    /\ from_date.kind = "iso" =>
          (r.start_time # <<>> /\ r.start_time[1] > from_date.d)
    /\ to_date.kind = "iso" =>
          (r.start_time # <<>> /\ r.start_time[1] < to_date.d)
    /\ duration_gt # <<>> =>
          (r.duration # <<>> /\ r.duration[1] > duration_gt[1])
    /\ duration_lt # <<>> =>
          (r.duration # <<>> /\ r.duration[1] < duration_lt[1])

\* the WHERE clause built by list_calls
ListWhere(r, company, from_date, to_date, duration_gt, duration_lt) ==
    /\ r.company_id = company
    /\ from_date.kind = "iso" => ColGe(r.start_time, from_date.d)
    /\ to_date.kind = "iso" => ColLe(r.start_time, to_date.d)
    /\ duration_gt # <<>> => ColGe(r.duration, duration_gt[1])
    /\ duration_lt # <<>> => ColLe(r.duration, duration_lt[1])

Page_NoLimit(rows, offset, limit) == SubSeq(rows, offset + 1, Len(rows))

\* .offset(offset).limit(limit) of the selected rows
Page(rows, offset, limit) ==
    SubSeq(rows, offset + 1,
           IF Len(rows) < offset + limit THEN Len(rows) ELSE offset + limit)

LimitMin == 1
LimitMax == 200
LimitDefault == 20

\* limit: int = Query(20, ...): the parameter of the query string, <<>> when
\* the request has none
QueryLimit(limit) == IF limit = <<>> THEN LimitDefault ELSE limit[1]

\* limit: int = Query(20, ge=1, le=200), offset: int = Query(0, ge=0): a
\* value outside is refused by the framework before the handler runs
ListCalls(company, from_date, to_date, duration_gt, duration_lt, limit, offset, records) ==
    IF QueryLimit(limit) < LimitMin \/ QueryLimit(limit) > LimitMax \/ offset < 0
    THEN [status |-> 422, body |-> <<>>]
    ELSE IF from_date.kind = "bad" \/ to_date.kind = "bad"
    THEN [status |-> 400, body |-> <<>>]
    ELSE LET Keep(r) == ListWhere(r, company, from_date, to_date,
                                  duration_gt, duration_lt)
             rows == Page(SelectSeq(records, Keep), offset, QueryLimit(limit))
         IN  [status |-> 200,
              body |-> [i \in 1..Len(rows) |-> CallRead(rows[i])]]

----------------------------------------------------------------------------
(* GET /api/calls/{call_id}/insight : get_insight *)

\* res.scalars().first()
First(rows) == IF rows = <<>> THEN <<>> ELSE <<rows[1]>>

\* InsightRead.from_orm(ins)
InsightRead(ins) ==
    [transcription |-> ins.transcription, sentiment |-> ins.sentiment,
     keywords |-> ins.keywords, summary |-> ins.summary]

GetInsight_NoReadyCheck(company, call_id, records, insights) ==
    LET KeepCall(r) == r.company_id = company /\ r.call_id = call_id
        cr == First(SelectSeq(records, KeepCall))
    IN  IF cr = <<>> THEN [status |-> 404, body |-> "call not found"]
        ELSE LET KeepIns(x) == x.call_id = cr[1].id
                 ins == First(SelectSeq(insights, KeepIns))
             IN  IF ins = <<>>
                 THEN [status |-> 404, body |-> "insight missing"]
                 ELSE [status |-> 200, body |-> InsightRead(ins[1])]

GetInsight(company, call_id, records, insights) ==
    LET KeepCall(r) == r.company_id = company /\ r.call_id = call_id
        cr == First(SelectSeq(records, KeepCall))
    IN  IF cr = <<>> THEN [status |-> 404, body |-> "call not found"]
        ELSE IF ~cr[1].is_processed
        THEN [status |-> 404, body |-> "insight not ready"]
        ELSE LET KeepIns(x) == x.call_id = cr[1].id
                 ins == First(SelectSeq(insights, KeepIns))
             IN  IF ins = <<>>
                 THEN [status |-> 404, body |-> "insight missing"]
                 ELSE [status |-> 200, body |-> InsightRead(ins[1])]

----------------------------------------------------------------------------
(* GET /api/reports/ : get_report *)

\* collections.Counter as its items in first-seen order: <<key, count>>
RECURSIVE CounterAdd(_, _)
CounterAdd(counter, key) ==
    IF counter = <<>> THEN << <<key, 1>> >>
    ELSE IF counter[1][1] = key
    THEN << <<key, counter[1][2] + 1>> >> \o Tail(counter)
    ELSE <<counter[1]>> \o CounterAdd(Tail(counter), key)

RECURSIVE CounterUpdate(_, _)
\* Counter.update(keys)
CounterUpdate(counter, keys) ==
    IF keys = <<>> THEN counter
    ELSE CounterUpdate(CounterAdd(counter, keys[1]), Tail(keys))

RECURSIVE InsertByCount(_, _)
\* one step of a stable sort by falling count
InsertByCount(sorted, item) ==
    IF sorted = <<>> THEN <<item>>
    ELSE IF sorted[1][2] >= item[2]
    THEN <<sorted[1]>> \o InsertByCount(Tail(sorted), item)
    ELSE <<item>> \o sorted

RECURSIVE SortByCount(_, _)
SortByCount(counter, sorted) ==
    IF counter = <<>> THEN sorted
    ELSE SortByCount(Tail(counter), InsertByCount(sorted, counter[1]))

\* [k for k, _ in counter.most_common(n)]
MostCommon(counter, n) ==
    LET sorted == SortByCount(counter, <<>>)
        top == SubSeq(sorted, 1, IF Len(sorted) < n THEN Len(sorted) ELSE n)
    IN  [i \in 1..Len(top) |-> top[i][1]]

\* dict(counter)
CounterDict(counter) ==
    [k \in {counter[i][1] : i \in DOMAIN counter} |->
        counter[CHOOSE i \in DOMAIN counter : counter[i][1] = k][2]]

RECURSIVE SumDurations(_)
\* sum((c.duration or 0) for c in calls)
SumDurations(calls) ==
    IF calls = <<>> THEN 0
    ELSE (IF calls[1].duration = <<>> THEN 0 ELSE calls[1].duration[1])
         + SumDurations(Tail(calls))

RECURSIVE KeywordValues(_)
\* the values of ins.keywords.items(), one list after the other
KeywordValues(items) ==
    IF items = <<>> THEN <<>> ELSE items[1][2] \o KeywordValues(Tail(items))

RECURSIVE ReportCounters(_, _, _, _)
\* the loop over calls of get_report: the two counters
ReportCounters(calls, insights, sentiments, keywords) ==
    IF calls = <<>> THEN <<sentiments, keywords>>
    ELSE LET KeepIns(x) == x.call_id = calls[1].id
             ins == First(SelectSeq(insights, KeepIns))
         IN  IF ins = <<>>
             THEN ReportCounters(Tail(calls), insights, sentiments, keywords)
             ELSE ReportCounters(Tail(calls), insights,
                    CounterAdd(sentiments,
                               IF ins[1].sentiment = <<>> THEN "Unknown"
                               ELSE ins[1].sentiment[1]),
                    CounterUpdate(keywords, KeywordValues(ins[1].keywords)))

TopKeywords == 5

GetReport_AllCalls(company, records, insights) ==
    LET KeepCall(r) == r.company_id = company
        calls == SelectSeq(records, KeepCall)
        total == Len(calls)
        counters == ReportCounters(calls, insights, <<>>, <<>>)
    IN  [status |-> 200,
         body |-> [total_calls |-> total,
                   avg_duration |-> IF total # 0
                                    THEN <<SumDurations(calls), total>>
                                    ELSE <<0, 1>>,
                   sentiment_distribution |-> CounterDict(counters[1]),
                   top_keywords |-> MostCommon(counters[2], TopKeywords)]]

\* avg_duration is the quotient sum / total, kept as the pair <<sum, total>>;
\* the number 0 of the empty case is <<0, 1>>
GetReport(company, records, insights) ==
    LET KeepCall(r) == r.company_id = company /\ r.is_processed = TRUE
        calls == SelectSeq(records, KeepCall)
        total == Len(calls)
        counters == ReportCounters(calls, insights, <<>>, <<>>)
    IN  [status |-> 200,
         body |-> [total_calls |-> total,
                   avg_duration |-> IF total # 0
                                    THEN <<SumDurations(calls), total>>
                                    ELSE <<0, 1>>,
                   sentiment_distribution |-> CounterDict(counters[1]),
                   top_keywords |-> MostCommon(counters[2], TopKeywords)]]

----------------------------------------------------------------------------
(* Celery task generate_company_report, lane 'reports' *)

MaxClock == 1         \* seconds the clock runs through
MaxGenerations == 2   \* executions of generate_company_report per company

RECURSIVE SnapshotSentiments(_, _, _)
\* the loop over calls of generate_company_report: the sentiments dict, as
\* its items in first-seen order; a call without insight, or whose insight
\* has no sentiment, counts as 'Unknown'
SnapshotSentiments(calls, insights, sentiments) ==
    IF calls = <<>> THEN sentiments
    ELSE LET KeepIns(x) == x.call_id = calls[1].id
             ins == First(SelectSeq(insights, KeepIns))
             s == IF ins # <<>> /\ ins[1].sentiment # <<>>
                  THEN ins[1].sentiment[1] ELSE "Unknown"
         IN  SnapshotSentiments(Tail(calls), insights,
                                CounterAdd(sentiments, s))

CompanyReport_AllCalls(company, records, insights, at) ==
    LET KeepCall(r) == r.company_id = company
        calls == SelectSeq(records, KeepCall)
        total == Len(calls)
    IN  [company_id |-> company,
         total_calls |-> total,
         avg_duration |-> IF total # 0 THEN <<SumDurations(calls), total>>
                          ELSE <<0, 1>>,
         sentiment_distribution |->
             CounterDict(SnapshotSentiments(calls, insights, <<>>)),
         generated_at |-> at]

\* the report dictionary; at: datetime.utcnow()
CompanyReport(company, records, insights, at) ==
    LET KeepCall(r) == r.company_id = company /\ r.is_processed = TRUE
        calls == SelectSeq(records, KeepCall)
        total == Len(calls)
    IN  [company_id |-> company,
         total_calls |-> total,
         avg_duration |-> IF total # 0 THEN <<SumDurations(calls), total>>
                          ELSE <<0, 1>>,
         sentiment_distribution |->
             CounterDict(SnapshotSentiments(calls, insights, <<>>)),
         generated_at |-> at]

\* MEDIA_ROOT/reports/<company_id>/report-<int(utcnow().timestamp())>.json
SnapshotPath(company, at) == <<"reports", company, at>>

\* open(path, 'w'); json.dump(report, f): the file is created, or the file
\* of that name is written over
WriteFile(files, path, content) ==
    [f \in DOMAIN files \cup {path} |->
        IF f = path THEN content ELSE files[f]]

\* A worker of lane 'reports' takes the job and runs the task to its return
GenerateReport(c) ==
    /\ BagIn(c, reports_queue)
    /\ generated[c] < MaxGenerations
    /\ reports_queue' = reports_queue (-) SetToBag({c})
    /\ snapshots' = WriteFile(snapshots, SnapshotPath(c, now),
                              CompanyReport(c, callrecord, callinsight, now))
    /\ generated' = [generated EXCEPT ![c] = generated[c] + 1]
    /\ UNCHANGED <<now, resp, db, media, calls_queue, req, wk, sw, regen, hist>>

\* a second passes
Tick ==
    /\ now < MaxClock
    /\ now' = now + 1
    /\ UNCHANGED <<snapshots, generated, resp, db, media, calls_queue,
                   reports_queue, req, wk, sw, regen, hist>>

----------------------------------------------------------------------------
(* The GET endpoints as requests of a company *)

Answer(op, company, r) ==
    [op |-> op, company |-> company, status |-> r.status, body |-> r.body]

ListCallsRequest(c, from_date, to_date, duration_gt, duration_lt, limit, offset) ==
    /\ resp' = Answer("list", c,
                      ListCalls(c, from_date, to_date, duration_gt,
                                duration_lt, limit, offset, callrecord))
    /\ UNCHANGED <<gen, db, media, calls_queue, reports_queue, req, wk, sw,
                   regen, hist>>

GetInsightRequest(c, call_id) ==
    /\ resp' = Answer("insight", c,
                      GetInsight(c, call_id, callrecord, callinsight))
    /\ UNCHANGED <<gen, db, media, calls_queue, reports_queue, req, wk, sw,
                   regen, hist>>

GetReportRequest(c) ==
    /\ resp' = Answer("report", c, GetReport(c, callrecord, callinsight))
    /\ UNCHANGED <<gen, db, media, calls_queue, reports_queue, req, wk, sw,
                   regen, hist>>

----------------------------------------------------------------------------
(* Failures of the Media Store and of the database, from outside *)

\* save_upload_file raises; the file may already have been created
CreateSaveFault(u, company, wrote) ==
    /\ req[u].pc = "idle"
    /\ Len(media) < MaxFiles
    /\ media' = IF wrote THEN Append(media, company) ELSE media
    /\ req' = [req EXCEPT ![u] = [NoReq EXCEPT !.status = 500]]
    /\ UNCHANGED <<gen, resp, db, calls_queue, reports_queue, wk, sw, regen, hist>>

\* the file is saved and db.commit() raises for another reason than the
\* unique index
CreateCommitFault(u, company) ==
    /\ req[u].pc = "idle"
    /\ Len(media) < MaxFiles
    /\ media' = Append(media, company)
    /\ req' = [req EXCEPT ![u] = [NoReq EXCEPT !.status = 500]]
    /\ UNCHANGED <<gen, resp, db, calls_queue, reports_queue, wk, sw, regen, hist>>

\* db.refresh(cr) raises: the row is committed, the answer is the 500; id
\* keeps the row the request has inserted
CreateRefreshFault(u) ==
    /\ req[u].pc = "committed"
    /\ req' = [req EXCEPT ![u] = [NoReq EXCEPT !.status = 500,
                                              !.id = req[u].id]]
    /\ UNCHANGED <<gen, resp, db, media, calls_queue, reports_queue, wk, sw, regen, hist>>

\* An id no row of callrecord has (rows are numbered from 1 and never more
\* than MaxFiles)
StrayId == MaxFiles + 1

\* process_call_record.delay(id) from outside the program for an id that no
\* record has: a job left over from a database that was reset, or sent by
\* hand
StrayJob ==
    /\ BagCardinality(calls_queue) < MaxQueue
    /\ calls_queue' = Delay(calls_queue, StrayId, TRUE)
    /\ UNCHANGED <<gen, resp, db, media, reports_queue, req, wk, sw, regen, hist>>

\* session.query(...).get(id) raises: rollback, re-raise
ProcessLoadFault(w, id) ==
    /\ wk[w].pc = "idle"
    /\ BagIn(id, calls_queue)
    /\ calls_queue' = calls_queue (-) SetToBag({id})
    /\ Finished(id, id \in ran, FALSE, "load")
    /\ UNCHANGED <<gen, resp, db, media, reports_queue, req, wk, sw, regen, lost, swept>>

\* session.commit() raises for another reason than the unique index:
\* rollback, re-raise
ProcessCommitFault(w) ==
    /\ wk[w].pc = "loaded"
    /\ wk' = [wk EXCEPT ![w] = NoRun]
    /\ callrecord' = RolledBack(callrecord, wk[w].id)
    /\ UNCHANGED callinsight
    /\ Finished(wk[w].id, wk[w].after, FALSE, "commit")
    /\ UNCHANGED <<gen, resp, media, calls_queue, reports_queue, req, sw, regen,
                   lost, swept>>

----------------------------------------------------------------------------

\* the ids a job on lane 'calls' can carry
JobIds == 1..StrayId

Init ==
    /\ callrecord = <<>>
    /\ callinsight = <<>>
    /\ media = <<>>
    /\ calls_queue = EmptyBag
    /\ reports_queue = EmptyBag
    /\ req = [u \in Clients |-> NoReq]
    /\ wk = [w \in Workers |-> NoRun]
    /\ sw = NoSweep
    /\ regen = [company |-> 0, status |-> 0]
    /\ resp = NoResp
    /\ lost = {}
    /\ swept = {}
    /\ ran = {}
    /\ reran = {}
    /\ clashed = {}
    /\ raised = {}
    /\ now = 0
    /\ snapshots = <<>>
    /\ generated = [c \in Companies |-> 0]

Next ==
    \/ \E u \in Clients, c \in Companies, k \in CallIds, m \in Metas :
          CreateCommit(u, c, k, m.duration, m.start_time)
    \/ \E u \in Clients : CreateRefresh(u)
    \/ \E u \in Clients, ok \in BOOLEAN : CreateEnqueue(u, ok)
    \/ \E w \in Workers, id \in JobIds : ProcessLoad(w, id)
    \/ \E w \in Workers, s \in SentimentEnum : ProcessCommit(w, s)
    \/ SweepScan
    \/ \E ok \in BOOLEAN : SweepEnqueue(ok)
    \/ \E c \in Companies, ok \in BOOLEAN : RegenReport(c, ok)

Fault ==
    \/ \E u \in Clients, c \in Companies, wrote \in BOOLEAN :
          CreateSaveFault(u, c, wrote)
    \/ \E u \in Clients, c \in Companies : CreateCommitFault(u, c)
    \/ \E u \in Clients : CreateRefreshFault(u)
    \/ \E w \in Workers, id \in JobIds : ProcessLoadFault(w, id)
    \/ \E w \in Workers : ProcessCommitFault(w)

NextFault == Next \/ Fault

\* ingestion and the workers, with jobs for unknown ids arriving
NextStray ==
    \/ \E u \in Clients, c \in Companies, k \in CallIds, m \in Metas :
          CreateCommit(u, c, k, m.duration, m.start_time)
    \/ \E u \in Clients : CreateRefresh(u)
    \/ \E u \in Clients, ok \in BOOLEAN : CreateEnqueue(u, ok)
    \/ \E w \in Workers, id \in JobIds : ProcessLoad(w, id)
    \/ \E w \in Workers, s \in SentimentEnum : ProcessCommit(w, s)
    \/ StrayJob

----------------------------------------------------------------------------
(* The read endpoints over the tables the pipeline can leave behind *)

MaxRows == 2          \* rows of table callrecord in a read-only run

RowCallIds == <<"k1", "k2", "k3", "k4">>
ReadMetas == Metas \cup {[duration |-> <<>>, start_time |-> <<>>],
                         [duration |-> <<50>>, start_time |-> <<2>>]}
Progress == {"pending"} \cup SentimentEnum

\* A table callrecord of n rows with unique call identifiers, and the table
\* callinsight with one row for each processed record
RowChoices == [company : Companies, meta : ReadMetas, progress : Progress]
RecordsOf(f) ==
    [i \in DOMAIN f |->
        [NewCallRecord(i, f[i].company, RowCallIds[i], f[i].meta.duration,
                       f[i].meta.start_time, i)
         EXCEPT !.is_processed = (f[i].progress # "pending")]]
InsightsFor(f) ==
    LET Done(r) == r.is_processed
        done == SelectSeq(RecordsOf(f), Done)
    IN  [j \in 1..Len(done) |->
            NewCallInsight(done[j].id, done[j].call_id,
                           f[done[j].id].progress)]

InitRead ==
    /\ \E n \in 0..MaxRows : \E f \in [1..n -> RowChoices] :
          /\ callrecord = RecordsOf(f)
          /\ callinsight = InsightsFor(f)
          /\ media = [i \in 1..n |-> f[i].company]
    /\ calls_queue = EmptyBag
    /\ reports_queue = EmptyBag
    /\ req = [u \in Clients |-> NoReq]
    /\ wk = [w \in Workers |-> NoRun]
    /\ sw = NoSweep
    /\ regen = [company |-> 0, status |-> 0]
    /\ resp = NoResp
    /\ lost = {}
    /\ swept = {}
    /\ ran = {}
    /\ reran = {}
    /\ clashed = {}
    /\ raised = {}
    /\ now = 0
    /\ snapshots = <<>>
    /\ generated = [c \in Companies |-> 0]

FromDateInputs == {NoDate, IsoDate(2), BadDate}
ToDateInputs == {NoDate, IsoDate(1)}
DurationGtInputs == {<<>>, <<6>>}
DurationLtInputs == {<<>>, <<49>>}
LimitInputs == {<<>>, <<0>>, <<1>>, <<201>>}
OffsetInputs == {0, 1}

NextRead ==
    \/ \E c \in Companies, fd \in FromDateInputs, td \in ToDateInputs,
          dg \in DurationGtInputs, dl \in DurationLtInputs,
          limit \in LimitInputs, offset \in OffsetInputs :
          ListCallsRequest(c, fd, td, dg, dl, limit, offset)
    \/ \E c \in Companies, k \in Range(RowCallIds) : GetInsightRequest(c, k)
    \/ \E c \in Companies : GetReportRequest(c)

SpecRead == InitRead /\ [][NextRead]_vars

----------------------------------------------------------------------------
(* Report regeneration and the report worker over the tables the pipeline
   can leave behind, with the clock running *)

NextReport ==
    \/ \E c \in Companies, ok \in BOOLEAN : RegenReport(c, ok)
    \/ \E c \in Companies : GenerateReport(c)
    \/ Tick
    \/ \E c \in Companies : GetReportRequest(c)

SpecReport == InitRead /\ [][NextReport]_vars

----------------------------------------------------------------------------
(* list_calls over tables of records that wait for their processing *)

MaxListRows == 3      \* rows of table callrecord in a run of list_calls

ListMetas ==
    {[duration |-> <<5>>, start_time |-> <<1>>],
     [duration |-> <<50>>, start_time |-> <<2>>],
     [duration |-> <<50>>, start_time |-> <<3>>],
     [duration |-> <<500>>, start_time |-> <<3>>],
     [duration |-> <<>>, start_time |-> <<>>]}

InitList ==
    /\ \E n \in 0..MaxListRows :
          \E f \in [1..n -> [company : Companies, meta : ListMetas]] :
             /\ callrecord =
                   [i \in 1..n |->
                      NewCallRecord(i, f[i].company, RowCallIds[i],
                                    f[i].meta.duration, f[i].meta.start_time, i)]
             /\ media = [i \in 1..n |-> f[i].company]
    /\ callinsight = <<>>
    /\ calls_queue = EmptyBag
    /\ reports_queue = EmptyBag
    /\ req = [u \in Clients |-> NoReq]
    /\ wk = [w \in Workers |-> NoRun]
    /\ sw = NoSweep
    /\ regen = [company |-> 0, status |-> 0]
    /\ resp = NoResp
    /\ lost = {}
    /\ swept = {}
    /\ ran = {}
    /\ reran = {}
    /\ clashed = {}
    /\ raised = {}
    /\ now = 0
    /\ snapshots = <<>>
    /\ generated = [c \in Companies |-> 0]

ListFromInputs == {NoDate, IsoDate(2)}
ListToInputs == {NoDate, IsoDate(2)}
ListGtInputs == {<<>>, <<10>>, <<50>>}
ListLtInputs == {<<>>, <<100>>, <<50>>}
ListLimitInputs == {<<>>, <<1>>}
ListOffsetInputs == {0, 1}

NextList ==
    \E c \in Companies, fd \in ListFromInputs, td \in ListToInputs,
       dg \in ListGtInputs, dl \in ListLtInputs,
       limit \in ListLimitInputs, offset \in ListOffsetInputs :
       ListCallsRequest(c, fd, td, dg, dl, limit, offset)

SpecList == InitList /\ [][NextList]_vars

----------------------------------------------------------------------------

\* The pipeline with the database and the Media Store available
Spec == Init /\ [][Next]_vars

\* The pipeline with the database and the Media Store failing at will
SpecFault == Init /\ [][NextFault]_vars

\* Ingestion and the workers with jobs for unknown ids on the lane
SpecStray == Init /\ [][NextStray]_vars

----------------------------------------------------------------------------
(* Every operation of the program side by side: ingestion, one worker slot
   of lane 'calls', the sweep, the read endpoints and both report paths of
   the company that may regenerate, with the broker reachable *)

FrameWorker == CHOOSE w \in Workers : TRUE
FrameCompany == CHOOSE c \in Companies : can_regen_reports(c)

NextFrame ==
    \/ \E u \in Clients, c \in Companies, k \in CallIds, m \in Metas :
          CreateCommit(u, c, k, m.duration, m.start_time)
    \/ \E u \in Clients : CreateRefresh(u)
    \/ \E u \in Clients : CreateEnqueue(u, TRUE)
    \/ \E id \in JobIds : ProcessLoad(FrameWorker, id)
    \/ \E s \in SentimentEnum : ProcessCommit(FrameWorker, s)
    \/ SweepScan
    \/ SweepEnqueue(TRUE)
    \/ RegenReport(FrameCompany, TRUE)
    \/ GenerateReport(FrameCompany)
    \/ GetReportRequest(FrameCompany)
    \/ \E k \in CallIds : GetInsightRequest(FrameCompany, k)
    \/ ListCallsRequest(FrameCompany, NoDate, NoDate, <<>>, <<>>, <<>>, 0)

SpecFrame == Init /\ [][NextFrame]_vars

----------------------------------------------------------------------------
(* The pipeline with its workers running: a worker of lane 'calls' that is
   free takes a job that waits on the lane, and a task that has loaded its
   record runs on to its commit *)

WorkerFairness ==
    /\ \A id \in JobIds : WF_vars(\E w \in Workers : ProcessLoad(w, id))
    /\ \A w \in Workers : WF_vars(\E s \in SentimentEnum : ProcessCommit(w, s))

SpecLive == Init /\ [][Next]_vars /\ WorkerFairness

----------------------------------------------------------------------------
(* Properties *)

InsightCount(id) == Cardinality(InsightsOf(callinsight, id))
InFlight(id) == \E w \in Workers : wk[w].pc = "loaded" /\ wk[w].id = id
Queued(id) == BagIn(id, calls_queue)

\* C1: when process_call_record has run for a record and a second run for
\* the same id, started after the first had finished, has finished too, the
\* record has exactly one CallInsight row and its flag is true.
C1_Idempotent ==
    \A id \in reran :
        /\ id \in DOMAIN callrecord
        /\ InsightCount(id) = 1
        /\ callrecord[id].is_processed

C1_Witness ==
    \E id \in reran : id \notin clashed /\ InsightCount(id) = 1

\* C2: in every state a record has a CallInsight row exactly if its
\* processed flag is true, and every CallInsight row belongs to a record.
C2_InsightIffProcessed ==
    /\ \A id \in DOMAIN callrecord :
          InsightCount(id) >= 1 <=> callrecord[id].is_processed
    /\ \A j \in DOMAIN callinsight :
          callinsight[j].call_id \in DOMAIN callrecord

\* a processed record beside a record whose job has run and failed
C2_Witness ==
    \E i, j \in DOMAIN callrecord :
        /\ callrecord[i].is_processed /\ InsightCount(i) = 1
        /\ ~callrecord[j].is_processed /\ j \in ran /\ InsightCount(j) = 0
        /\ sw.pc = "done" /\ regen.status = 200

\* C3: executions for the same record running at the same time never leave
\* more than one CallInsight row for it, and once an execution has finished
\* and none is running any more the record is processed with exactly one.
C3_ConcurrentRuns ==
    \A id \in DOMAIN callrecord :
        /\ InsightCount(id) <= 1
        /\ (id \in ran /\ ~InFlight(id)) =>
              (callrecord[id].is_processed /\ InsightCount(id) = 1)

\* two executions overlapped, the unique index stopped the second, both are
\* over
C3_Witness ==
    \E id \in clashed :
        ~InFlight(id) /\ ~Queued(id) /\ InsightCount(id) = 1

\* C4: a record is inserted unprocessed, no row ever disappears, and a flag
\* that is true stays true in every step.
C4_ProcessedMonotonic ==
    [][/\ Len(callrecord') >= Len(callrecord)
       /\ \A id \in DOMAIN callrecord' :
             IF id \in DOMAIN callrecord
             THEN callrecord[id].is_processed => callrecord'[id].is_processed
             ELSE ~callrecord'[id].is_processed]_vars

\* a processed record after a later execution for it, a failed one included,
\* with the sweep over and a report regeneration answered
C4_Witness ==
    \E id \in reran :
        /\ callrecord[id].is_processed
        /\ sw.pc = "done" /\ regen.status # 0 /\ Len(callrecord) = 2

UniqueCallIds ==
    \A i, j \in DOMAIN callrecord :
        callrecord[i].call_id = callrecord[j].call_id => i = j

\* C5: no two records share a call identifier, and a create_call whose
\* identifier exists already answers 500 and leaves both tables as they were.
C5_UniqueCallId ==
    [][/\ UniqueCallIds'
       /\ \A u \in Clients, c \in Companies, k \in CallIds, m \in Metas :
             ( /\ \E i \in DOMAIN callrecord : callrecord[i].call_id = k
               /\ CreateCommit(u, c, k, m.duration, m.start_time) )
             => (req'[u].status = 500 /\ db' = db)]_vars

\* the second create_call came from the other tenant with the same
\* identifier, after the first record was processed
C5_Witness ==
    \E u \in Clients :
        /\ req[u].status = 500
        /\ Len(callrecord) = 1 /\ Len(media) = 2
        /\ media[2] # callrecord[1].company_id
        /\ callrecord[1].is_processed

\* C6 as stated: every 201 of create_call carries is_processed = false,
\* whatever the workers did meanwhile.
C6_ReturnsUnprocessed ==
    \A u \in Clients : req[u].status = 201 => ~req[u].is_processed

\* C6, amended: the record is inserted unprocessed and create_call never
\* sets the flag; until the request sends its own job the flag in the table,
\* and with it the value the 201 carries, is false unless a sweep has sent a
\* job for the new record meanwhile; whether the request's own enqueue
\* succeeds or fails changes nothing.
C6_UnprocessedUnlessSwept ==
    \A u \in Clients :
        /\ req[u].pc \in {"committed", "refreshed"} =>
              (callrecord[req[u].id].is_processed => req[u].id \in swept)
        /\ (req[u].pc = "refreshed" \/ req[u].status = 201) =>
              (req[u].is_processed => req[u].id \in swept)

\* a 201 with the flag false after an enqueue that failed
C6_Witness ==
    \E u \in Clients :
        /\ req[u].status = 201 /\ ~req[u].is_processed
        /\ req[u].id \in lost /\ req[u].id \notin swept

\* C7: a create_call whose enqueue failed has answered 201 with the record
\* committed, and as long as no sweep has sent a job for the record it is
\* unprocessed, without insight, with no job waiting or running.
C7_LostUntilSwept ==
    /\ \A id \in lost :
          /\ id \in DOMAIN callrecord
          /\ id \notin swept =>
                /\ ~callrecord[id].is_processed
                /\ InsightCount(id) = 0
                /\ ~Queued(id)
                /\ ~InFlight(id)
    /\ \A u \in Clients :
          (req[u].pc = "idle" /\ req[u].id \in lost) => req[u].status = 201

\* one record lost and still unprocessed, after workers ran for another one
\* that a sweep had picked up
C7_Witness ==
    \E id \in lost \ swept : \E other \in lost \cap swept :
        /\ ~callrecord[id].is_processed
        /\ callrecord[other].is_processed
        /\ \E u \in Clients : req[u].status = 201 /\ req[u].id = id

SentCount(id) == Cardinality({k \in DOMAIN sw.sent : sw.sent[k] = id})

\* C8: a run of the sweep that reaches its end without a broker error has
\* sent one job for each record that was unprocessed at its scan, of any
\* company, none for a record that was processed then, and each job it sent
\* has joined the lane.
C8_SweepEnqueuesPending ==
    /\ [](sw.pc = "done" =>
            /\ \A k \in DOMAIN sw.sent : sw.sent[k] \in DOMAIN sw.seen
            /\ \A id \in DOMAIN sw.seen :
                  SentCount(id) = IF sw.seen[id] THEN 0 ELSE 1)
    /\ [][Len(sw'.sent) = Len(sw.sent) + 1 =>
             calls_queue' = calls_queue (+) SetToBag({sw'.sent[Len(sw'.sent)]})
         ]_vars

\* the run found a processed record of one company and a pending one of the
\* other
C8_Witness ==
    /\ sw.pc = "done"
    /\ \E i, j \in DOMAIN sw.seen :
          /\ sw.seen[i] /\ ~sw.seen[j] /\ SentCount(j) = 1
          /\ callrecord[i].company_id # callrecord[j].company_id

\* the tables as a company's own rows only
OwnCalls(c) ==
    LET Mine(r) == r.company_id = c IN SelectSeq(callrecord, Mine)
OwnInsights(c) ==
    LET Mine(x) == \E i \in DOMAIN callrecord :
                      /\ callrecord[i].id = x.call_id
                      /\ callrecord[i].company_id = c
    IN  SelectSeq(callinsight, Mine)

\* C9: what list_calls, get_insight and get_report answer to a company is
\* what they answer over that company's rows alone, for every filter and
\* page, so two states that agree on the company's rows give the same
\* answers; and a list answered to a company holds its own records only.
C9_TenantIsolation ==
    /\ \A c \in Companies :
          /\ \A fd \in FromDateInputs, td \in ToDateInputs,
                dg \in DurationGtInputs, dl \in DurationLtInputs,
                limit \in LimitInputs, offset \in OffsetInputs :
                ListCalls(c, fd, td, dg, dl, limit, offset, callrecord)
                = ListCalls(c, fd, td, dg, dl, limit, offset, OwnCalls(c))
          /\ \A k \in Range(RowCallIds) :
                GetInsight(c, k, callrecord, callinsight)
                = GetInsight(c, k, OwnCalls(c), OwnInsights(c))
          /\ GetReport(c, callrecord, callinsight)
             = GetReport(c, OwnCalls(c), OwnInsights(c))
    /\ (resp.op = "list" /\ resp.status = 200) =>
          \A i \in DOMAIN resp.body :
              callrecord[resp.body[i].id].company_id = resp.company

\* a company has listed its one record while the other company holds a
\* record with the same field values
C9_Witness ==
    /\ resp.op = "list" /\ resp.status = 200 /\ Len(resp.body) = 1
    /\ \E i, j \in DOMAIN callrecord :
          /\ callrecord[i].company_id = resp.company
          /\ callrecord[j].company_id # resp.company
          /\ callrecord[i].duration = callrecord[j].duration
          /\ callrecord[i].start_time = callrecord[j].start_time
          /\ callrecord[i].is_processed = callrecord[j].is_processed

\* C10: regen_report for a company whose can_regen_reports is unset answers
\* 403 and leaves lane 'reports' as it was.
C10_RegenForbidden ==
    [][\A c \in Companies, ok \in BOOLEAN :
          (~can_regen_reports(c) /\ RegenReport(c, ok)) =>
             (regen'.status = 403 /\ reports_queue' = reports_queue)]_vars

\* the refusal came while a job of the permitted company was waiting
C10_Witness ==
    /\ regen = [company |-> 2, status |-> 403]
    /\ BagIn(1, reports_queue)

\* C11: get_insight answers by the state alone: 404 "call not found" when
\* the company has no record with the identifier, 404 "insight not ready"
\* when the record is unprocessed, 404 "insight missing" when it is processed
\* and callinsight has no row for it, and otherwise 200 with that row; the
\* request changes nothing but the response.  The third case, which no state
\* of the pipeline shows, is put to the function with the rows of callinsight
\* taken away.
C11_GetInsightOutcome ==
    /\ [](\A c \in Companies, k \in Range(RowCallIds) :
           \A insights \in {callinsight, <<>>} :
              LET mine == {i \in DOMAIN callrecord :
                             /\ callrecord[i].company_id = c
                             /\ callrecord[i].call_id = k}
                  rows(i) == {j \in DOMAIN insights : insights[j].call_id = i}
                  out == GetInsight(c, k, callrecord, insights)
              IN  IF mine = {}
                  THEN out = [status |-> 404, body |-> "call not found"]
                  ELSE \A i \in mine :
                     IF ~callrecord[i].is_processed
                     THEN out = [status |-> 404, body |-> "insight not ready"]
                     ELSE IF rows(i) = {}
                     THEN out = [status |-> 404, body |-> "insight missing"]
                     ELSE /\ out.status = 200
                          /\ \E j \in rows(i) :
                                /\ out.body.sentiment = insights[j].sentiment
                                /\ out.body.keywords = insights[j].keywords
                                /\ out.body.summary = insights[j].summary
                                /\ out.body.transcription
                                   = insights[j].transcription)
    /\ [][\A c \in Companies, k \in Range(RowCallIds) :
             GetInsightRequest(c, k) =>
                /\ UNCHANGED <<db, media, calls_queue, reports_queue, snapshots>>
                /\ resp'.status \in {200, 404}]_vars

\* a company was answered the insight of one record while it holds another
\* one that is not ready, and the other company was not shown either
C11_Witness ==
    /\ resp.op = "insight" /\ resp.status = 200
    /\ \E i, j \in DOMAIN callrecord :
          /\ callrecord[i].company_id = resp.company
          /\ callrecord[i].is_processed
          /\ resp.body.transcription[2] = callrecord[i].call_id
          /\ callrecord[j].company_id = resp.company
          /\ ~callrecord[j].is_processed
          /\ GetInsight(3 - resp.company, callrecord[i].call_id, callrecord,
                        callinsight).body = "call not found"

\* the records of a company that satisfy every filter of the request
Matching(c, fd, td, dg, dl) ==
    {i \in DOMAIN callrecord :
        LET start == callrecord[i].start_time
            duration == callrecord[i].duration
        IN  /\ callrecord[i].company_id = c
            /\ fd.kind = "iso" => (Len(start) = 1 /\ start[1] >= fd.d)
            /\ td.kind = "iso" => (Len(start) = 1 /\ start[1] <= td.d)
            /\ dg # <<>> => (Len(duration) = 1 /\ duration[1] >= dg[1])
            /\ dl # <<>> => (Len(duration) = 1 /\ duration[1] <= dl[1])}

\* C12: list_calls answers with records of the company that satisfy every
\* filter given, bounds included, each once, as many of them as offset and
\* limit leave, and with all of them when nothing is cut; of three records
\* with durations 5, 50 and 500, duration_gt = 10 and duration_lt = 100
\* leave the one with 50.
C12_ConjunctiveFilters ==
    \A c \in Companies, fd \in ListFromInputs, td \in ListToInputs,
       dg \in ListGtInputs, dl \in ListLtInputs,
       limit \in ListLimitInputs, offset \in ListOffsetInputs :
       LET out == ListCalls(c, fd, td, dg, dl, limit, offset, callrecord)
           ids == {out.body[i].id : i \in DOMAIN out.body}
           all == Matching(c, fd, td, dg, dl)
           left == IF Cardinality(all) > offset
                   THEN Cardinality(all) - offset ELSE 0
           lim == IF limit = <<>> THEN 20 ELSE limit[1]
       IN  /\ out.status = 200
           /\ ids \subseteq all
           /\ Cardinality(ids) = Len(out.body)
           /\ Len(out.body) = IF left < lim THEN left ELSE lim
           /\ \A i \in DOMAIN out.body :
                 /\ out.body[i].duration = callrecord[out.body[i].id].duration
                 /\ out.body[i].start_time
                    = callrecord[out.body[i].id].start_time
                 /\ out.body[i].call_id = callrecord[out.body[i].id].call_id

\* the company holds three records with durations 5, 50 and 500 and was
\* answered what duration_gt = 10 with duration_lt = 100 selects: the one
\* record with duration 50
C12_Witness ==
    /\ resp.op = "list" /\ resp.status = 200
    /\ Len(callrecord) = 3
    /\ \A i \in DOMAIN callrecord : callrecord[i].company_id = resp.company
    /\ {callrecord[i].duration : i \in DOMAIN callrecord}
       = {<<5>>, <<50>>, <<500>>}
    /\ resp.body = ListCalls(resp.company, NoDate, NoDate, <<10>>, <<100>>,
                             <<>>, 0, callrecord).body
    /\ Len(resp.body) = 1 /\ resp.body[1].duration = <<50>>

\* list_calls with no filter
Unfiltered(c, limit, offset) ==
    ListCalls(c, NoDate, NoDate, <<>>, <<>>, limit, offset, callrecord)

\* C13 as stated: a limit below 1 is served as limit 1, a limit above 200 as
\* limit 200, an omitted limit as 20, and no request is refused for its
\* limit.
C13_LimitClamped ==
    [][\A c \in Companies, offset \in OffsetInputs :
          /\ ListCallsRequest(c, NoDate, NoDate, <<>>, <<>>, <<0>>, offset)
                => resp' = Answer("list", c, Unfiltered(c, <<1>>, offset))
          /\ ListCallsRequest(c, NoDate, NoDate, <<>>, <<>>, <<201>>, offset)
                => resp' = Answer("list", c, Unfiltered(c, <<200>>, offset))
          /\ ListCallsRequest(c, NoDate, NoDate, <<>>, <<>>, <<>>, offset)
                => resp' = Answer("list", c, Unfiltered(c, <<20>>, offset))
          /\ resp'.op = "list" =>
                (resp'.status # 422 /\ Len(resp'.body) <= 200)]_vars

\* C13, amended: a limit below 1 or above 200 is refused with 422 and no
\* record, an omitted limit is 20, and a request that is served answers
\* with at most limit records, so with at most 200.
C13_LimitRange ==
    /\ \A c \in Companies, offset \in OffsetInputs :
          /\ \A limit \in {-1, 0, 201, 202} :
                Unfiltered(c, <<limit>>, offset)
                = [status |-> 422, body |-> <<>>]
          /\ \A limit \in {1, 2, 20, 199, 200} :
                /\ Unfiltered(c, <<limit>>, offset).status = 200
                /\ Len(Unfiltered(c, <<limit>>, offset).body) <= limit
          /\ Unfiltered(c, <<>>, offset) = Unfiltered(c, <<20>>, offset)
    /\ resp.op = "list" => Len(resp.body) <= 200

\* a company with two records was refused a list for its limit
C13_Witness ==
    /\ resp.op = "list" /\ resp.status = 422 /\ resp.body = <<>>
    /\ Len(OwnCalls(resp.company)) = 2

NoneProcessed(c) ==
    \A i \in DOMAIN callrecord :
        callrecord[i].company_id = c => ~callrecord[i].is_processed

\* C14: for a company without a processed record, with no record at all or
\* with unprocessed ones only, get_report answers 200 with total_calls 0,
\* avg_duration 0 (no quotient by zero is formed), no sentiment counted and
\* no keyword.
C14_EmptyReport ==
    /\ \A c \in Companies :
          NoneProcessed(c) =>
             LET out == GetReport(c, callrecord, callinsight)
             IN  /\ out.status = 200
                 /\ out.body.total_calls = 0
                 /\ out.body.avg_duration[1] = 0
                 /\ out.body.avg_duration[2] # 0
                 /\ DOMAIN out.body.sentiment_distribution = {}
                 /\ out.body.top_keywords = <<>>
    /\ (resp.op = "report" /\ NoneProcessed(resp.company)) =>
          /\ resp.status = 200
          /\ resp.body.total_calls = 0
          /\ resp.body.top_keywords = <<>>

\* the report of a company whose records are all unprocessed, beside a
\* company with a processed record
C14_Witness ==
    /\ resp.op = "report" /\ resp.status = 200
    /\ resp.body.total_calls = 0 /\ resp.body.avg_duration = <<0, 1>>
    /\ \E i, j \in DOMAIN callrecord :
          /\ callrecord[i].company_id = resp.company
          /\ callrecord[i].duration # <<>>
          /\ NoneProcessed(resp.company)
          /\ callrecord[j].is_processed

\* C15: an execution of process_call_record that has loaded a record whose
\* flag is true already makes no attempt to insert a CallInsight, and it
\* ends with both tables as they were and no error raised to the queue.
C15_NoOpOnProcessed ==
    [][\A w \in Workers :
          (wk[w].pc = "loaded" /\ wk[w].is_processed) =>
             /\ \A s \in SentimentEnum : ~ProcessCommit(w, s)
             /\ wk'[w].pc = "idle" => (db' = db /\ raised' = raised)]_vars

\* C16: when the commit of process_call_record fails, by the unique index
\* or from outside, the execution ends with callrecord and callinsight as
\* they were and with its error raised to the queue; so a record an
\* execution has failed to persist for has its flag true exactly if it has
\* its one insight.
C16_PersistRollsBack ==
    /\ [](\A e \in raised :
           e[2] = "commit" =>
              InsightCount(e[1])
              = IF callrecord[e[1]].is_processed THEN 1 ELSE 0)
    /\ [][\A w \in Workers :
             (/\ wk[w].pc = "loaded" /\ wk'[w].pc = "idle"
              /\ InsightsOf(callinsight', wk[w].id)
                 = InsightsOf(callinsight, wk[w].id))
             => (db' = db /\ <<wk[w].id, "commit">> \in raised')]_vars

\* a commit has failed from outside for a record that is still unprocessed,
\* and another has failed on the unique index for a processed one
C16_Witness ==
    \E i, j \in DOMAIN callrecord :
        /\ <<i, "commit">> \in raised /\ i \notin clashed
        /\ ~callrecord[i].is_processed /\ InsightCount(i) = 0
        /\ <<j, "commit">> \in raised
        /\ callrecord[j].is_processed /\ InsightCount(j) = 1

\* C17: an execution of process_call_record for an id no record has ends at
\* the load: it returns without raising, its job has left the lane and is
\* not put back, no CallInsight is inserted and no row changes.
C17_MissingRecordNoOp ==
    /\ [](/\ \A e \in raised : e[1] \in DOMAIN callrecord
          /\ \A j \in DOMAIN callinsight :
                callinsight[j].call_id \in DOMAIN callrecord
          /\ \A w \in Workers :
                wk[w].pc = "loaded" => wk[w].id \in DOMAIN callrecord)
    /\ [][\A w \in Workers, id \in JobIds :
             (id \notin DOMAIN callrecord /\ ProcessLoad(w, id)) =>
                /\ db' = db
                /\ wk' = wk
                /\ raised' = raised
                /\ id \in ran'
                /\ calls_queue' (+) SetToBag({id}) = calls_queue]_vars

\* an execution for the unknown id is over, its job is gone from the lane,
\* and the one record there is has been processed by another execution
C17_Witness ==
    /\ StrayId \in ran
    /\ ~BagIn(StrayId, calls_queue)
    /\ \A w \in Workers : wk[w].pc = "idle"
    /\ Len(callrecord) = 1 /\ callrecord[1].is_processed
    /\ Len(callinsight) = 1

\* C18 as stated: after a create_call that has answered 500 there is no
\* callrecord row of the request, so none with a job or a true flag.
C18_FailureLeavesNoRow ==
    \A u \in Clients :
        req[u].status = 500 => req[u].id \notin DOMAIN callrecord

\* some failure of create_call: at the save, at the commit (unique index or
\* not), or at the refresh
CreateFails(u) ==
    \/ \E c \in Companies, wrote \in BOOLEAN : CreateSaveFault(u, c, wrote)
    \/ \E c \in Companies : CreateCommitFault(u, c)
    \/ CreateRefreshFault(u)
    \/ \E c \in Companies, k \in CallIds, m \in Metas :
          /\ CallIdTaken(callrecord, k)
          /\ CreateCommit(u, c, k, m.duration, m.start_time)

\* C18, amended: a create_call that fails at the save, the commit or the
\* refresh answers 500, sends no job and changes no row in failing; a row
\* of the request is there afterwards only if the failure came after its
\* commit, and that row has no job of the request and is unprocessed, with
\* no job waiting or running, unless a sweep has sent a job for it.
C18_FailureLeavesNoJob ==
    /\ [](\A u \in Clients :
           (req[u].status = 500 /\ req[u].id # 0) =>
              LET id == req[u].id
              IN  /\ id \in DOMAIN callrecord
                  /\ id \notin lost
                  /\ id \notin swept =>
                        /\ ~callrecord[id].is_processed
                        /\ InsightCount(id) = 0
                        /\ ~Queued(id) /\ ~InFlight(id))
    /\ [][\A u \in Clients :
             CreateFails(u) =>
                /\ req'[u].status = 500 /\ req'[u].pc = "idle"
                /\ db' = db /\ calls_queue' = calls_queue /\ lost' = lost
                /\ req[u].pc = "idle" => req'[u].id = 0]_vars

\* the refresh has failed after the commit: the answer is 500 and the row
\* is there, unprocessed, with no job, and no sweep has seen it
C18_Witness ==
    \E u \in Clients :
        /\ req[u].status = 500 /\ req[u].id \in DOMAIN callrecord
        /\ ~callrecord[req[u].id].is_processed
        /\ ~Queued(req[u].id)
        /\ req[u].id \notin swept
        /\ Len(media) = 2 /\ Len(callrecord) = 1

\* C19 as stated: create_call answers its 201 when its enqueue has failed,
\* and neither regen_report nor the sweep reports success when theirs has.
C19_SwallowOnlyAtIngestion ==
    [][/\ \A u \in Clients : CreateEnqueue(u, FALSE) => req'[u].status = 201
       /\ \A c \in Companies :
             (can_regen_reports(c) /\ RegenReport(c, FALSE))
                => regen'.status # 200
       /\ SweepEnqueue(FALSE) => sw'.pc # "done"]_vars

\* C19, amended: create_call and regen_report both answer success (201,
\* 200) when their enqueue has failed, with no job sent; the sweep does not:
\* a failed enqueue ends the script with the error, short of its end.
C19_SwallowAtIngestionAndRegen ==
    [][/\ \A u \in Clients :
             CreateEnqueue(u, FALSE) =>
                (req'[u].status = 201 /\ calls_queue' = calls_queue)
       /\ \A c \in Companies :
             (can_regen_reports(c) /\ RegenReport(c, FALSE)) =>
                (regen'.status = 200 /\ reports_queue' = reports_queue)
       /\ SweepEnqueue(FALSE) =>
             (sw'.pc = "crashed" /\ calls_queue' = calls_queue)]_vars

\* all three have met the broker down: the 201 for a record that has no
\* job, the 200 with lane 'reports' empty, and the script ended by the error
C19_Witness ==
    /\ regen = [company |-> 1, status |-> 200]
    /\ reports_queue = EmptyBag
    /\ sw.pc = "crashed"
    /\ \E u \in Clients :
          /\ req[u].status = 201 /\ req[u].id \in lost
          /\ ~Queued(req[u].id)

SnapshotsOf(c) == {f \in DOMAIN snapshots : f[2] = c}

\* C20: every execution of generate_company_report that has returned has
\* left a file of its own: a company has as many snapshot files as it has
\* had generations, also when two of them fall into the same second.
C20_SnapshotsAccumulate ==
    \A c \in Companies : Cardinality(SnapshotsOf(c)) = generated[c]

\* the processed records of a company whose insight carries sentiment s,
\* "Unknown" standing for an insight without one
ProcessedWith(c, s) ==
    {i \in DOMAIN callrecord :
        /\ callrecord[i].company_id = c
        /\ callrecord[i].is_processed
        /\ \E j \in DOMAIN callinsight :
              /\ callinsight[j].call_id = i
              /\ callinsight[j].sentiment
                 = IF s = "Unknown" THEN <<>> ELSE <<s>>}
ProcessedOf(c) ==
    {i \in DOMAIN callrecord :
        callrecord[i].company_id = c /\ callrecord[i].is_processed}
Count(dist, s) == IF s \in DOMAIN dist THEN dist[s] ELSE 0
Buckets == SentimentEnum \cup {"Unknown"}

\* C21: in every state get_report and generate_company_report give a
\* company the same total_calls, the number of its processed records, and
\* the same sentiment_distribution, which counts each of these records once
\* under the sentiment of its insight; an unprocessed record is in neither,
\* and a snapshot file holds these values.
C21_ReportsAgree ==
    /\ \A c \in Companies :
          LET a == GetReport(c, callrecord, callinsight).body
              b == CompanyReport(c, callrecord, callinsight, now)
          IN  /\ a.total_calls = Cardinality(ProcessedOf(c))
              /\ b.total_calls = Cardinality(ProcessedOf(c))
              /\ DOMAIN a.sentiment_distribution \subseteq Buckets
              /\ DOMAIN b.sentiment_distribution \subseteq Buckets
              /\ \A s \in Buckets :
                    /\ Count(a.sentiment_distribution, s)
                       = Cardinality(ProcessedWith(c, s))
                    /\ Count(b.sentiment_distribution, s)
                       = Cardinality(ProcessedWith(c, s))
              /\ ProcessedOf(c) = UNION {ProcessedWith(c, s) : s \in Buckets}
    /\ \A f \in DOMAIN snapshots :
          LET a == GetReport(f[2], callrecord, callinsight).body
          IN  /\ snapshots[f].total_calls = a.total_calls
              /\ snapshots[f].sentiment_distribution = a.sentiment_distribution
    /\ resp.op = "report" =>
          resp.body.total_calls = Cardinality(ProcessedOf(resp.company))

\* a company with a processed and an unprocessed record has been answered
\* its report and has a snapshot file, both counting the one record
C21_Witness ==
    /\ resp.op = "report" /\ resp.body.total_calls = 1
    /\ \E f \in DOMAIN snapshots :
          /\ f[2] = resp.company
          /\ snapshots[f].total_calls = 1
          /\ snapshots[f].sentiment_distribution
             = resp.body.sentiment_distribution
          /\ DOMAIN snapshots[f].sentiment_distribution # {}
    /\ \E i \in DOMAIN callrecord :
          callrecord[i].company_id = resp.company /\ ~callrecord[i].is_processed

\* the step is the commit of the task that works on record i
CommitOf(i) ==
    \E w \in Workers, s \in SentimentEnum :
        ProcessCommit(w, s) /\ wk[w].id = i

\* C22: in every step no row of callrecord or callinsight disappears, a
\* row of callinsight keeps its value, and a row of callrecord keeps its
\* value unless the step is the commit of the task working on that row,
\* which changes nothing of it but is_processed; so list_calls,
\* get_insight, get_report, regen_report, generate_company_report, the
\* sweep and a create_call leave every existing row as it was.
C22_Frame ==
    [][/\ Len(callrecord') >= Len(callrecord)
       /\ Len(callinsight') >= Len(callinsight)
       /\ \A j \in DOMAIN callinsight : callinsight'[j] = callinsight[j]
       /\ \A i \in DOMAIN callrecord :
             callrecord'[i] # callrecord[i] =>
                /\ CommitOf(i)
                /\ callrecord'[i]
                   = [callrecord[i] EXCEPT
                        !.is_processed = callrecord'[i].is_processed]]_vars

\* two records and an insight are there, the first was flagged by its task
\* and the second was not touched, after the sweep has run, a read endpoint
\* has answered, the regeneration was accepted and a snapshot was written
C22_Witness ==
    /\ Len(callrecord) = 2
    /\ callrecord[1].is_processed /\ ~callrecord[2].is_processed
    /\ InsightsOf(callinsight, 1) # {}
    /\ sw.run = 1 /\ sw.pc = "done"
    /\ resp.op # "none"
    /\ regen.status = 200
    /\ DOMAIN snapshots # {}

\* the records whose recording_file is file f of the Media Store
ReferringTo(f) ==
    {i \in DOMAIN callrecord : callrecord[i].recording_file = f}

\* C24: in every state each file that save_upload_file has written is the
\* recording_file of exactly one row of callrecord, also after a
\* create_call that was answered 500.
C24_EveryFileReferenced ==
    \A f \in DOMAIN media : Cardinality(ReferringTo(f)) = 1

\* record id was left without a job by create_call, and a run of the sweep
\* script has sent it and has ended
SweptAfterLoss(id) ==
    /\ id \in lost
    /\ sw.pc = "done"
    /\ \E n \in DOMAIN sw.sent : sw.sent[n] = id

ProcessedOnce(id) ==
    /\ id \in DOMAIN callrecord
    /\ callrecord[id].is_processed
    /\ Cardinality(InsightsOf(callinsight, id)) = 1

\* C23: with the workers of lane 'calls' running, a record whose delay()
\* in create_call failed and that a completed run of the sweep script has
\* sent is eventually processed, with exactly one insight.
C23_SweepRecovers ==
    \A id \in 1..MaxFiles : SweptAfterLoss(id) ~> ProcessedOnce(id)

\* a record that create_call left without a job was sent by the sweep, run
\* by a worker after that, and is processed with its one insight
C23_Witness ==
    \E id \in 1..MaxFiles :
        /\ SweptAfterLoss(id)
        /\ ProcessedOnce(id)
        /\ id \in ran

====
